---- MODULE Spec2Model ----
(***************************************************************************)
(* CURE agglomerative clustering (pyclustering/clustering/cure.py), the    *)
(* pure-Python engine (ccore False), and the elbow method (elbow.py).      *)
(*                                                                         *)
(* Points are one-dimensional.  A coordinate x is stored as the integer    *)
(* x * Scale, where Scale is a common denominator of every mean and every  *)
(* shrunk representative the run can produce, so the arithmetic of the     *)
(* code (a division by the member count, a multiplication by the           *)
(* compression) is exact rational arithmetic here.  The compression c is   *)
(* stored as the numerator of c = compression / CDen.                      *)
(*                                                                         *)
(* A cluster object is an identifier: 1..n are the singletons made by      *)
(* __create_queue in input order, n+1, n+2, ... the clusters made by       *)
(* __merge_clusters.  A member point is the index of the input point.      *)
(***************************************************************************)
EXTENDS Integers, Sequences, FiniteSets, Bags

\* ------------------------------------------------------------------ bounds
MaxN == 5                \* points of an input
MaxCoord == 4            \* input coordinates are 0..MaxCoord
MaxR == 2                \* number_represent_points is 1..MaxR
MaxBlobN == 6            \* points of an input made of separated groups
MaxBlobCoord == 5        \* its coordinates are 0..MaxBlobCoord
MaxDistinctN == 6        \* points of an input of pairwise distinct points
MaxDistinctCoord == 6    \* its coordinates are 0..MaxDistinctCoord
MaxAnyN == 3             \* points of an input given with any configuration
MaxKmin == 3              \* elbow: kmin is 0..MaxKmin
MaxSpan == 4              \* elbow: kmax - kmin is 0..MaxSpan
MaxWce == 2               \* elbow: a total within-cluster error is 0..MaxWce
MaxAnyR == 3             \* number_represent_points is then 0..MaxAnyR

\* compression is a multiple of 1 / CDen: 0, 0.5 (the default), 1
CDen == 2
\* the defaults of cure.__init__: number_represent_points = 5, compression = 0.5
DefaultR == 5
DefaultCompression == 1

RECURSIVE Factorial(_)
Factorial(m) == IF m <= 1 THEN 1 ELSE m * Factorial(m - 1)

Scale ==
    LET N == { MaxN, MaxBlobN, MaxDistinctN, MaxAnyN }
    IN  CDen * Factorial(CHOOSE m \in N : \A x \in N : m >= x)

\* float('inf'): larger than every distance between two stored coordinates
Inf == Scale * (MaxCoord + MaxBlobCoord + MaxDistinctCoord + 1)

\* Python's None as a cluster reference
None == 0

VARIABLES
    pointer_data,               \* the input: sequence of coordinates (scaled)
    number_cluster,             \* k
    number_represent_points,    \* R
    compression,                \* numerator of c over CDen
    cl,                         \* the cure_cluster objects, by identifier
    queue,                      \* self.__queue: sequence of identifiers
    tree,                       \* self.__tree: bag of [p |-> point, o |-> payload]
    clusters,                   \* self.__clusters: None or the output partition
    pc,                         \* position of process(): "loop", "done", "raised"
    cluster1, cluster2,         \* locals of the last round of the main loop
    merged_cluster,
    cluster_relocation_requests,
    rounds,                     \* rounds of the main loop begun
    kmin, kmax,                 \* elbow: self.__kmin, self.__kmax
    wce,                        \* elbow: self.__wce
    elbows,                     \* elbow: self.__elbows
    kvalue,                     \* elbow: self.__kvalue
    elbow_pc                    \* elbow: "none", "raised", "process", "done"

cure_vars == << pointer_data, number_cluster, number_represent_points, compression,
                cl, queue, tree, clusters, pc, cluster1, cluster2, merged_cluster,
                cluster_relocation_requests, rounds >>

elbow_vars == << kmin, kmax, wce, elbows, kvalue, elbow_pc >>

vars == << cure_vars, elbow_vars >>

\* no elbow instance has been built
no_elbow ==
    /\ kmin = None
    /\ kmax = None
    /\ wce = << >>
    /\ elbows = << >>
    /\ kvalue = None
    /\ elbow_pc = "none"

\* ------------------------------------------------------------ sequences
Range(s) == { s[i] : i \in DOMAIN s }

RemoveAt(s, i) == SubSeq(s, 1, i - 1) \o SubSeq(s, i + 1, Len(s))

InsertAt(s, i, x) == SubSeq(s, 1, i - 1) \o << x >> \o SubSeq(s, i, Len(s))

\* list.remove(x): drops the first occurrence (the caller checks membership)
ListRemove(s, x) ==
    LET i == CHOOSE j \in DOMAIN s : s[j] = x /\ \A h \in 1..(j - 1) : s[h] # x
    IN  RemoveAt(s, i)

SetMin(S) == CHOOSE m \in S : \A x \in S : m <= x

SetMax(S) == CHOOSE m \in S : \A x \in S : m >= x

\* ------------------------------------------------------------- distances
euclidean_distance(a, b) == IF a >= b THEN a - b ELSE b - a

cluster_distance(rep1, rep2) ==
    LET D == { euclidean_distance(rep1[i], rep2[j]) : i \in DOMAIN rep1, j \in DOMAIN rep2 }
    IN  IF D = {} THEN Inf ELSE SetMin(D)


\* --------------------------------------------------------- cure_cluster
\* every singleton holds the first input point
cure_cluster_first(i, point) ==
    [ points |-> << 1 >>, mean |-> point, rep |-> << point >>,
      closest |-> None, distance |-> Inf ]

cure_cluster(i, point) ==
    [ points |-> << i >>, mean |-> point, rep |-> << point >>,
      closest |-> None, distance |-> Inf ]

\* ------------------------------------------------------ ordered frontier
\* position at which __insert_cluster puts a cluster of cached distance d:
\* before the first element whose cached distance is greater, else at the end
insert_index(q, c, d) ==
    LET I == { i \in DOMAIN q : d < c[q[i]].distance }
    IN  IF I = {} THEN Len(q) + 1 ELSE SetMin(I)

insert_cluster(q, c, cluster) ==
    InsertAt(q, insert_index(q, c, c[cluster].distance), cluster)

\* the cluster is inserted again without being removed first
relocate_cluster_noremove(q, c, cluster) == insert_cluster(q, c, cluster)

relocate_cluster(q, c, cluster) ==
    insert_cluster(ListRemove(q, cluster), c, cluster)

\* list.sort(key = distance): stable, ascending
RECURSIVE stable_sort(_, _)
stable_sort(q, c) ==
    IF q = << >> THEN << >>
    ELSE LET front == stable_sort(SubSeq(q, 1, Len(q) - 1), c)
             x     == q[Len(q)]
             I     == { i \in DOMAIN front : c[front[i]].distance > c[x].distance }
             at    == IF I = {} THEN Len(front) + 1 ELSE SetMin(I)
         IN  InsertAt(front, at, x)

\* ------------------------------------------------------- spatial index
RECURSIVE insert_represented_points(_, _, _)
insert_represented_points(t, rep, cluster) ==
    IF rep = << >> THEN t
    ELSE insert_represented_points(t (+) SetToBag({ [ p |-> Head(rep), o |-> cluster ] }),
                                   Tail(rep), cluster)

\* kdtree.remove(point): drops one node holding these coordinates, whichever
\* the tree walk meets first; nothing when no node holds them
tree_remove(t, point) ==
    LET M == { e \in BagToSet(t) : e.p = point }
    IN  IF M = {} THEN { t } ELSE { t (-) SetToBag({ e }) : e \in M }

\* the trees __delete_represented_points can leave
RECURSIVE delete_represented_points(_, _)
delete_represented_points(t, rep) ==
    IF rep = << >> THEN { t }
    ELSE UNION { delete_represented_points(t2, Tail(rep)) : t2 \in tree_remove(t, Head(rep)) }

\* kdtree.find_nearest_dist_nodes(point, distance): (distance, node) of every
\* node within the radius
find_nearest_dist_nodes(t, point, distance) ==
    { << euclidean_distance(point, e.p), e >> :
        e \in { f \in BagToSet(t) : euclidean_distance(point, f.p) <= distance } }

\* __closest_cluster without the comparison of distances: any node in the radius
closest_cluster_any(t, c, cluster, distance) ==
    LET Cand == { n \in UNION { find_nearest_dist_nodes(t, c[cluster].rep[i], distance) :
                                  i \in DOMAIN c[cluster].rep } : n[2].o # cluster }
    IN  IF Cand = {} THEN { << None, Inf >> }
        ELSE { << n[2].o, n[1] >> : n \in Cand }

\* the (nearest cluster, nearest distance) pairs __closest_cluster can return:
\* the strict comparison keeps the first node met at the least distance, and
\* which node is met first is the tree's traversal order
closest_cluster(t, c, cluster, distance) ==
    LET Cand == { n \in UNION { find_nearest_dist_nodes(t, c[cluster].rep[i], distance) :
                                  i \in DOMAIN c[cluster].rep } : n[2].o # cluster }
    IN  IF Cand = {} THEN { << None, Inf >> }
        ELSE LET nearest == SetMin({ n[1] : n \in Cand })
             IN  { << n[2].o, nearest >> : n \in { m \in Cand : m[1] = nearest } }

\* ---------------------------------------------------- __merge_clusters
\* cluster1.points + cluster1.points
merged_points_twice(c1, c2) == c1.points \o c1.points

merged_points(c1, c2) == c1.points \o c2.points

\* the means weighted by the numbers of representative points
merged_mean_by_rep(c1, c2) ==
    ( Len(c1.rep) * c1.mean + Len(c2.rep) * c2.mean ) \div ( Len(c1.rep) + Len(c2.rep) )

merged_mean(c1, c2) ==
    ( Len(c1.points) * c1.mean + Len(c2.points) * c2.mean )
        \div ( Len(c1.points) + Len(c2.points) )

\* the inner loop of the sampling: the last point at the greatest distance
maximal_point(points, ref, data) ==
    LET far  == SetMax({ euclidean_distance(data[points[i]], ref) : i \in DOMAIN points })
        last == SetMax({ i \in DOMAIN points : euclidean_distance(data[points[i]], ref) = far })
    IN  data[points[last]]

\* the sampling loop run once more than number_represent_points
RECURSIVE temporary_over(_, _, _, _)
temporary_over(n, points, mean, data) ==
    IF n = -1 THEN << >>
    ELSE LET t   == temporary_over(n - 1, points, mean, data)
             ref == IF n = 0 THEN mean ELSE t[1]
             mp  == maximal_point(points, ref, data)
         IN  IF mp \in Range(t) THEN t ELSE Append(t, mp)

\* `temporary` after n iterations of the sampling loop
RECURSIVE temporary(_, _, _, _)
temporary(n, points, mean, data) ==
    IF n = 0 THEN << >>
    ELSE LET t   == temporary(n - 1, points, mean, data)
             ref == IF n - 1 = 0 THEN mean ELSE t[1]
             mp  == maximal_point(points, ref, data)
         IN  IF mp \in Range(t) THEN t ELSE Append(t, mp)

\* point and mean exchanged
representative_point_swapped(point, mean, c) == mean + ( c * (point - mean) ) \div CDen

representative_point(point, mean, c) == point + ( c * (mean - point) ) \div CDen

merge_clusters(c1, c2, data, R, c) ==
    LET points == merged_points(c1, c2)
        mean   == merged_mean(c1, c2)
        temp   == temporary(R, points, mean, data)
    IN  [ points |-> points, mean |-> mean,
          rep |-> [ i \in DOMAIN temp |-> representative_point(temp[i], mean, c) ],
          closest |-> None, distance |-> Inf ]

\* ------------------------------------------------------- __create_queue
\* the comparison of line 298 reversed: the farthest cluster
closest_index_cluster_far(c, i) ==
    LET n    == Len(c)
        D(j) == cluster_distance(c[i].rep, c[j].rep)
        K    == { j \in 1..n : j # i }
    IN  IF K = {} THEN n
        ELSE SetMin({ j \in K : \A h \in K : D(j) >= D(h) })

closest_index_cluster(c, i) ==
    LET n    == Len(c)
        D(j) == cluster_distance(c[i].rep, c[j].rep)
        K    == { j \in 1..n : j # i /\ D(j) < Inf }
    IN  IF K = {} THEN n    \* index -1: the last cluster of the list
        ELSE SetMin({ j \in K : \A h \in K : D(j) <= D(h) })

create_queue(data) ==
    LET c0 == [ i \in DOMAIN data |-> cure_cluster(i, data[i]) ]
        c1 == [ i \in DOMAIN data |->
                  LET j == closest_index_cluster(c0, i)
                  IN  [ c0[i] EXCEPT !.closest = j,
                                     !.distance = IF j = i THEN Inf
                                                  ELSE cluster_distance(c0[i].rep, c0[j].rep) ] ]
    IN  [ cl |-> c1, queue |-> stable_sort([ i \in DOMAIN data |-> i ], c1) ]

create_kdtree(q, c) ==
    LET RECURSIVE build(_, _)
        build(t, i) == IF i > Len(q) THEN t
                       ELSE build(insert_represented_points(t, c[q[i]].rep, q[i]), i + 1)
    IN  build(EmptyBag, 1)

\* ------------------------------------------------------------ cure()
\* the engine after construction: the queue is built and sorted, the tree holds
\* the representative point of every singleton
Init ==
    \E n \in 1..MaxN :
      \E data \in [ 1..n -> { x * Scale : x \in 0..MaxCoord } ] :
        \E made \in { create_queue(data) } :
          \E k \in 1..n, R \in 1..MaxR, c \in 0..CDen :
              /\ pointer_data = data
              /\ number_cluster = k
              /\ number_represent_points = R
              /\ compression = c
              /\ cl = made.cl
              /\ queue = made.queue
              /\ tree = create_kdtree(made.queue, made.cl)
              /\ clusters = None
              /\ pc = "loop"
              /\ cluster1 = None
              /\ cluster2 = None
              /\ merged_cluster = None
              /\ cluster_relocation_requests = << >>
              /\ rounds = 0
              /\ no_elbow

config == << pointer_data, number_cluster, number_represent_points, compression >>

\* ---------------------------------------------------------- process()
\* the last cluster of the remaining queue taken as first candidate
first_candidate_last(m, q, c) ==
    IF Len(q) > 0
    THEN [ m EXCEPT !.closest = q[Len(q)],
                    !.distance = cluster_distance(m.rep, c[q[Len(q)]].rep) ]
    ELSE m

\* lines 115-118: the merged cluster gets the head of the remaining queue as
\* its first candidate neighbour
first_candidate(m, q, c) ==
    IF Len(q) > 0
    THEN [ m EXCEPT !.closest = q[1], !.distance = cluster_distance(m.rep, c[q[1]].rep) ]
    ELSE m

\* lines 121-152: one iteration of "for item in self.__queue"; the set of
\* [cl, req] the iteration can leave (one per answer of __closest_cluster)
scan_item(c, req, item, merged, c1, c2, t) ==
    LET distance == cluster_distance(c[merged].rep, c[item].rep)
        ca       == IF distance < c[merged].distance
                    THEN [ c EXCEPT ![merged].closest = item, ![merged].distance = distance ]
                    ELSE c
    IN  IF c[item].closest = c1 \/ c[item].closest = c2
        THEN IF c[item].distance < distance
             THEN { [ cl  |-> IF found[1] = None
                              THEN [ ca EXCEPT ![item].closest = merged,
                                               ![item].distance = distance ]
                              ELSE [ ca EXCEPT ![item].closest = found[1],
                                               ![item].distance = found[2] ],
                      req |-> Append(req, item) ] :
                    found \in closest_cluster(t, c, item, distance) }
             ELSE { [ cl  |-> [ ca EXCEPT ![item].closest = merged,
                                          ![item].distance = distance ],
                      req |-> Append(req, item) ] }
        ELSE IF c[item].distance > distance
             THEN \* line 150 assigns item.ditance: item.distance keeps its value
                  { [ cl |-> [ ca EXCEPT ![item].closest = merged ],
                      req |-> Append(req, item) ] }
             ELSE { [ cl |-> ca, req |-> req ] }

\* the whole loop of lines 120-152, from position i of the queue
RECURSIVE scan(_, _, _, _, _, _, _, _)
scan(c, req, q, i, merged, c1, c2, t) ==
    IF i > Len(q) THEN { [ cl |-> c, req |-> req ] }
    ELSE UNION { scan(s.cl, s.req, q, i + 1, merged, c1, c2, t) :
                   s \in scan_item(c, req, q[i], merged, c1, c2, t) }

\* line 156: the relocation requests, in order, from position i
RECURSIVE relocate_requests(_, _, _, _)
relocate_requests(q, c, req, i) ==
    IF i > Len(req) THEN q
    ELSE relocate_requests(relocate_cluster(q, c, req[i]), c, req, i + 1)

\* line 155 left out: the merged cluster never enters the queue
reinsert_without_merged(q, c, merged, req) == relocate_requests(q, c, req, 1)

\* lines 155-156
reinsert(q, c, merged, req) ==
    relocate_requests(insert_cluster(q, c, merged), c, req, 1)

\* One round of the main loop, lines 96-156, from queue q, clusters c and tree
\* t: the set of states the round can leave (one per answer of the tree).
\* list.remove raises ValueError when cluster2 is not in the queue: process()
\* then ends with cluster1 already removed.
round_outcomes(q, c, t, data, R, comp) ==
    LET c1 == q[1]
        c2 == c[c1].closest
        q1 == ListRemove(q, c1)
    IN  IF c2 \notin Range(q1)
        THEN { [ raised |-> TRUE, cl |-> c, queue |-> q1, tree |-> t,
                 cluster1 |-> c1, cluster2 |-> c2, merged |-> None, req |-> << >> ] }
        ELSE LET q2 == ListRemove(q1, c2)
                 m  == merge_clusters(c[c1], c[c2], data, R, comp)
                 id == Len(c) + 1
                 c0 == Append(c, first_candidate(m, q2, c))
             IN  UNION { UNION { LET tn == insert_represented_points(t2, m.rep, id)
                                 IN  { [ raised |-> FALSE, cl |-> s.cl,
                                         queue |-> reinsert(q2, s.cl, id, s.req),
                                         tree |-> tn, cluster1 |-> c1, cluster2 |-> c2,
                                         merged |-> id, req |-> s.req ] :
                                       s \in scan(c0, << >>, q2, 1, id, c1, c2, tn) } :
                                 t2 \in delete_represented_points(t1, c[c2].rep) } :
                         t1 \in delete_represented_points(t, c[c1].rep) }

Round ==
    /\ pc = "loop"
    /\ Len(queue) > number_cluster
    /\ \E o \in round_outcomes(queue, cl, tree, pointer_data,
                               number_represent_points, compression) :
          /\ pc' = IF o.raised THEN "raised" ELSE "loop"
          /\ cl' = o.cl
          /\ queue' = o.queue
          /\ tree' = o.tree
          /\ cluster1' = o.cluster1
          /\ cluster2' = o.cluster2
          /\ merged_cluster' = IF o.raised THEN merged_cluster ELSE o.merged
          /\ cluster_relocation_requests' =
                 IF o.raised THEN cluster_relocation_requests ELSE o.req
    /\ rounds' = rounds + 1
    /\ UNCHANGED << config, clusters, elbow_vars >>

\* line 159
Finish ==
    /\ pc = "loop"
    /\ Len(queue) <= number_cluster
    /\ clusters' = [ i \in DOMAIN queue |-> cl[queue[i]].points ]
    /\ pc' = "done"
    /\ UNCHANGED << config, cl, queue, tree, cluster1, cluster2, merged_cluster,
                    cluster_relocation_requests, rounds, elbow_vars >>

Next == Round \/ Finish

Spec == Init /\ [][Next]_vars

\* ------------------------------------------- separated groups as input
\* position of point i in the sorted input
rank(data, i) ==
    Cardinality({ j \in DOMAIN data :
                    data[j] < data[i] \/ (data[j] = data[i] /\ j < i) })

\* the group of point i when the sorted input is cut into g equal parts
group(data, g, i) == rank(data, i) \div (Len(data) \div g)

groups(data, g) == [ i \in DOMAIN data |-> group(data, g, i) ]

\* every gap between points of different groups exceeds every spread
separated(data, grp) ==
    LET pairs  == (DOMAIN data) \X (DOMAIN data)
        spread == SetMax({ euclidean_distance(data[p[1]], data[p[2]]) :
                             p \in { r \in pairs : grp[r[1]] = grp[r[2]] } })
        gaps   == { euclidean_distance(data[p[1]], data[p[2]]) :
                      p \in { r \in pairs : grp[r[1]] # grp[r[2]] } }
    IN  \A d \in gaps : d > spread

\* g >= 2 groups of equal size, well separated
well_separated(data, g) ==
    /\ g >= 2
    /\ Len(data) % g = 0
    /\ \E grp \in { groups(data, g) } : separated(data, grp)

\* cure(input_data, g) as the one-dimensional test builds it: default
\* number_represent_points and compression
InitBlobs ==
    \E n \in 1..MaxBlobN :
      \E data \in [ 1..n -> { x * Scale : x \in 0..MaxBlobCoord } ] :
        \E g \in 2..n :
          /\ well_separated(data, g)
          /\ \E made \in { create_queue(data) } :
              /\ pointer_data = data
              /\ number_cluster = g
              /\ number_represent_points = DefaultR
              /\ compression = DefaultCompression
              /\ cl = made.cl
              /\ queue = made.queue
              /\ tree = create_kdtree(made.queue, made.cl)
              /\ clusters = None
              /\ pc = "loop"
              /\ cluster1 = None
              /\ cluster2 = None
              /\ merged_cluster = None
              /\ cluster_relocation_requests = << >>
              /\ rounds = 0
              /\ no_elbow

SpecBlobs == InitBlobs /\ [][Next]_vars

\* ------------------------------------------ any input, any configuration
\* cure(data, number_cluster, number_represent_points, compression) as lines
\* 77-86 build it: the arguments are stored as given, the input may be empty,
\* and the queue and the tree are built from whatever was passed
InitAny ==
    \E n \in 0..MaxAnyN :
      \E data \in [ 1..n -> { x * Scale : x \in 0..MaxCoord } ] :
        \E made \in { create_queue(data) } :
          \E k \in 0..(n + 1), R \in 0..MaxAnyR, c \in (0 - 1)..(CDen + 1) :
              /\ pointer_data = data
              /\ number_cluster = k
              /\ number_represent_points = R
              /\ compression = c
              /\ cl = made.cl
              /\ queue = made.queue
              /\ tree = create_kdtree(made.queue, made.cl)
              /\ clusters = None
              /\ pc = "loop"
              /\ cluster1 = None
              /\ cluster2 = None
              /\ merged_cluster = None
              /\ cluster_relocation_requests = << >>
              /\ rounds = 0
              /\ no_elbow

SpecAny == InitAny /\ [][Next]_vars

\* ------------------------------------------------ pairwise distinct points
\* cure(data, 1, R, c) on an input without repeated points: the engine merges
\* down to one cluster, so a run takes every round the input allows
InitDistinct ==
    \E n \in 1..MaxDistinctN :
      \E data \in { d \in [ 1..n -> { x * Scale : x \in 0..MaxDistinctCoord } ] :
                      \A i, j \in 1..n : d[i] = d[j] => i = j } :
        \E made \in { create_queue(data) } :
          \E R \in 1..MaxR, c \in 0..CDen :
              /\ pointer_data = data
              /\ number_cluster = 1
              /\ number_represent_points = R
              /\ compression = c
              /\ cl = made.cl
              /\ queue = made.queue
              /\ tree = create_kdtree(made.queue, made.cl)
              /\ clusters = None
              /\ pc = "loop"
              /\ cluster1 = None
              /\ cluster2 = None
              /\ merged_cluster = None
              /\ cluster_relocation_requests = << >>
              /\ rounds = 0
              /\ no_elbow

SpecDistinct == InitDistinct /\ [][Next]_vars

\* ---------------------------------------------------------------- elbow
\* no cure engine has been built
no_cure ==
    /\ pointer_data = << >>
    /\ number_cluster = None
    /\ number_represent_points = None
    /\ compression = None
    /\ cl = << >>
    /\ queue = << >>
    /\ tree = EmptyBag
    /\ clusters = None
    /\ pc = "none"
    /\ cluster1 = None
    /\ cluster2 = None
    /\ merged_cluster = None
    /\ cluster_relocation_requests = << >>
    /\ rounds = 0

\* elbow(data, kmin, kmax): lines 54-56 raise ValueError when fewer than three
\* K remain, lines 60-66 store the arguments and the empty results
InitElbow ==
    \E lo \in 0..MaxKmin, span \in 0..MaxSpan :
        /\ kmin = lo
        /\ kmax = lo + span
        /\ wce = << >>
        /\ elbows = << >>
        /\ kvalue = 0 - 1
        /\ elbow_pc = IF kmax - kmin < 3 THEN "raised" ELSE "process"
        /\ no_cure

\* lines 74-79: one pass of "for amount in range(kmin, kmax)": K-Means runs
\* for amount = kmin + len(wce) and its total within-cluster error, which may
\* be any value, is appended
Evaluate ==
    /\ elbow_pc = "process"
    /\ kmin + Len(wce) < kmax
    /\ \E error \in 0..MaxWce : wce' = Append(wce, error)
    /\ UNCHANGED << kmin, kmax, elbows, kvalue, elbow_pc, cure_vars >>

\* __calculate_elbows: for index_elbow in range(1, len(wce) - 1) the sum of
\* the two neighbours of wce[index_elbow] (positions here start at 1)
calculate_elbows(w) == [ index_elbow \in 1..(Len(w) - 2) |-> w[index_elbow] + w[index_elbow + 2] ]

\* list.index(x): the position, counted from 0, of the first occurrence
list_index(s, x) == ( CHOOSE i \in DOMAIN s : s[i] = x /\ \A h \in 1..(i - 1) : s[h] # x ) - 1

\* __find_optimal_kvalue: elbows.index(max(elbows)) + 1
find_optimal_kvalue(e) == list_index(e, SetMax(Range(e))) + 1

\* lines 81-82, once the loop of line 74 has ended
Conclude ==
    /\ elbow_pc = "process"
    /\ kmin + Len(wce) >= kmax
    /\ elbows' = elbows \o calculate_elbows(wce)
    /\ kvalue' = find_optimal_kvalue(elbows')
    /\ elbow_pc' = "done"
    /\ UNCHANGED << kmin, kmax, wce, cure_vars >>

NextElbow == Evaluate \/ Conclude

SpecElbow == InitElbow /\ [][NextElbow]_vars

\* ================================================================ claims
n_points == Len(pointer_data)

RECURSIVE concat(_)
concat(ss) == IF ss = << >> THEN << >> ELSE Head(ss) \o concat(Tail(ss))

\* the member points of the clusters of the queue, in queue order
queue_points == concat([ i \in DOMAIN queue |-> cl[queue[i]].points ])

\* every input point exactly once
each_point_once(s) == Len(s) = n_points /\ Range(s) = 1..n_points

\* cluster i has been consumed by a merge: a later cluster holds its points
merged_away(i) ==
    \E j \in (i + 1)..Len(cl) : Range(cl[i].points) \subseteq Range(cl[j].points)

at_round_start == pc = "loop" \/ pc = "done"

\* C1: process() never raises, and the list get_clusters() returns after it
\* holds exactly number_cluster clusters.
C1_ClusterCount ==
    /\ pc # "raised"
    /\ pc = "done" => Len(clusters) = number_cluster

C1_Witness ==
    /\ pc = "done"
    /\ rounds >= 2
    /\ number_cluster >= 2
    /\ Len(clusters) = number_cluster

\* C2: at the start of every round and in the output, the member points of
\* the live clusters are the input points, each exactly once, so the sizes
\* sum to n.
C2_PointsConserved ==
    /\ at_round_start => each_point_once(queue_points)
    /\ pc = "done" => each_point_once(concat(clusters))

C2_Witness ==
    /\ pc = "done"
    /\ rounds >= 2
    /\ \E i \in DOMAIN clusters : Len(clusters[i]) >= 3
    /\ each_point_once(concat(clusters))

\* C3: process() never raises (both removals of the next round find their
\* cluster in the queue) and ends after exactly n - k rounds; every round takes
\* cluster1 and cluster2 = cluster1.closest out of the queue and puts the
\* merged cluster in, so that after r rounds the queue holds n - r clusters.
C3_ExactRounds ==
    /\ pc # "raised"
    /\ (pc = "loop" /\ Len(queue) > number_cluster)
          => cl[queue[1]].closest \in Range(queue) \ { queue[1] }
    /\ pc = "done" => rounds = n_points - number_cluster
    /\ at_round_start =>
          /\ Len(queue) = n_points - rounds
          /\ Len(queue) >= number_cluster
          /\ rounds >= 1 =>
                /\ cluster2 = cl[cluster1].closest
                /\ cluster1 # cluster2
                /\ Range(cl[merged_cluster].points) =
                       Range(cl[cluster1].points) \cup Range(cl[cluster2].points)
                /\ { cluster1, cluster2 } \cap Range(queue) = { }
                /\ merged_cluster \in Range(queue)

C3_Witness ==
    /\ pc = "done"
    /\ rounds = 3
    /\ rounds = n_points - number_cluster
    /\ Len(queue) = number_cluster

\* C4: with k = 1 the output is one cluster that holds all n input points.
C4_OneCluster ==
    number_cluster = 1
        => /\ pc # "raised"
           /\ pc = "done" => /\ Len(clusters) = 1
                             /\ each_point_once(clusters[1])

C4_Witness ==
    /\ pc = "done"
    /\ number_cluster = 1
    /\ n_points >= 4
    /\ each_point_once(clusters[1])

\* C5: with k = n no merge happens and the output is n singleton clusters,
\* one per input point.
C5_Singletons ==
    number_cluster = n_points
        => /\ pc # "raised"
           /\ rounds = 0
           /\ Len(cl) = n_points
           /\ pc = "done" => /\ Len(clusters) = n_points
                             /\ \A i \in DOMAIN clusters : Len(clusters[i]) = 1
                             /\ { clusters[i][1] : i \in DOMAIN clusters } = 1..n_points

C5_Witness ==
    /\ pc = "done"
    /\ number_cluster = n_points
    /\ n_points >= 3
    /\ \A i \in DOMAIN clusters : Len(clusters[i]) = 1

\* C6 (under SpecBlobs): for g well-separated groups of equal size, k = g and
\* the default R and c, the output is g clusters of the group size, each made
\* of the points of one group.
C6_BlobsRecovered ==
    /\ pc # "raised"
    /\ pc = "done" =>
          /\ Len(clusters) = number_cluster
          /\ \E grp \in { groups(pointer_data, number_cluster) } :
                \A i \in DOMAIN clusters :
                    /\ Len(clusters[i]) = n_points \div number_cluster
                    /\ \A a, b \in Range(clusters[i]) : grp[a] = grp[b]

C6_Witness ==
    /\ pc = "done"
    /\ number_represent_points = DefaultR
    /\ compression = DefaultCompression
    /\ well_separated(pointer_data, number_cluster)
    /\ n_points = 6
    /\ rounds >= 3
    /\ \A i \in DOMAIN clusters : Len(clusters[i]) = n_points \div number_cluster

\* C7: at the start of every round and on exit the queue is sorted in
\* non-decreasing order of the cached distances.
C7_QueueSorted ==
    at_round_start
        => \A i \in 1..(Len(queue) - 1) : cl[queue[i]].distance <= cl[queue[i + 1]].distance

\* C8: at the start of every round and on exit the queue holds every cluster
\* that no merge has consumed exactly once, and no consumed cluster.
C8_QueueMembership ==
    at_round_start
        => /\ \A i, j \in DOMAIN queue : queue[i] = queue[j] => i = j
           /\ Range(queue) = { i \in DOMAIN cl : ~ merged_away(i) }

C8_Witness ==
    /\ pc = "loop"
    /\ rounds >= 2
    /\ Len(cluster_relocation_requests) >= 2
    /\ Range(queue) = { i \in DOMAIN cl : ~ merged_away(i) }
    /\ \E i \in DOMAIN cl : merged_away(i)

\* C9: every cluster, singleton or merged, has at most number_represent_points
\* representative points.
C9_RepresentativeCap ==
    \A i \in DOMAIN cl : Len(cl[i].rep) <= number_represent_points

C9_Witness ==
    /\ number_represent_points = 1
    /\ \E i \in DOMAIN cl :
          /\ Cardinality({ pointer_data[cl[i].points[j]] : j \in DOMAIN cl[i].points }) >= 3
          /\ Len(cl[i].rep) = 1

RECURSIVE process_reference(_, _, _, _, _, _, _)
process_reference(q, c, t, data, k, R, comp) ==
    IF Len(q) <= k
    THEN [ i \in DOMAIN q |-> c[q[i]].points ]
    ELSE LET o == CHOOSE x \in round_outcomes(q, c, t, data, R, comp) : TRUE
         IN  IF o.raised THEN None
             ELSE process_reference(o.queue, o.cl, o.tree, data, k, R, comp)

\* the partition of a fresh engine on the same input and configuration
reference_clusters ==
    LET made == create_queue(pointer_data)
    IN  process_reference(made.queue, made.cl, create_kdtree(made.queue, made.cl),
                          pointer_data, number_cluster, number_represent_points,
                          compression)

\* the tree holds a node whose owner has been merged away
stale_node == \E e \in BagToSet(tree) : e.o \notin Range(queue)

\* C11: the partition returned is a function of the input sequence and the
\* configuration: every run, whatever nodes the tree removes or meets first,
\* returns the clusters of the reference run, in the same order and with the
\* same point order inside each cluster.
C11_Deterministic ==
    pc = "done" => clusters = reference_clusters

C11_Witness ==
    /\ pc = "done"
    /\ rounds >= 2
    /\ Len(clusters) >= 2
    /\ stale_node
    /\ clusters = reference_clusters

\* ------------------------------------------------------------------ C12
invalid_configuration ==
    \/ number_cluster < 1
    \/ number_cluster > Len(pointer_data)
    \/ number_represent_points < 1
    \/ compression \notin 0..CDen

\* C12: an engine given number_cluster < 1, number_cluster > n,
\* number_represent_points < 1 or a compression outside [0, 1] fails at
\* construction: no queue and no tree are built, no round runs and no
\* partition is returned.
C12_InvalidConfigurationRejected ==
    invalid_configuration =>
        /\ queue = << >>
        /\ tree = EmptyBag
        /\ rounds = 0
        /\ pc # "done"
        /\ clusters = None

\* ------------------------------------------------------------------ C13
\* C13: an engine given an empty sequence of points fails before processing
\* starts and never returns a partition.
C13_EmptyInputRejected ==
    pointer_data = << >> => ( pc # "done" /\ clusters = None )

\* ------------------------------------------------------------------ C14
\* a round is about to run
round_ahead == pc = "loop" /\ Len(queue) > number_cluster

\* the distance between two clusters of cl
dist(x, y) == cluster_distance(cl[x].rep, cl[y].rep)

\* C14: the pair a round merges, the head of the queue and its closest
\* cluster, is at the least distance between representatives among all pairs
\* of distinct clusters of the queue.
C14_NearestPairMerged ==
    round_ahead =>
        LET c1 == queue[1]
            c2 == cl[c1].closest
        IN  /\ c2 \in Range(queue) \ { c1 }
            /\ \A x, y \in Range(queue) : x # y => dist(c1, c2) <= dist(x, y)

\* ------------------------------------------------------------------ C15
\* C15: when a round is about to run, the cached distance of every cluster of
\* the queue is its distance to its cached closest cluster, and no other
\* cluster of the queue is strictly nearer.
C15_CacheAccurate ==
    round_ahead =>
        \A x \in Range(queue) :
            /\ cl[x].closest \in Range(queue) \ { x }
            /\ cl[x].distance = dist(x, cl[x].closest)
            /\ \A y \in Range(queue) \ { x } : dist(x, y) >= cl[x].distance

\* ------------------------------------------------------------------ C16
\* a step is a round that merged cluster1' and cluster2' into merged_cluster'
round_taken == pc = "loop" /\ pc' = "loop" /\ rounds' = rounds + 1

\* the distance of a cluster to the cluster the round has built
distance_to_merged(item) == cluster_distance(cl'[item].rep, cl'[merged_cluster'].rep)

\* C16: a round that finds the merged cluster strictly nearer to a cluster
\* than its cached distance, its cached closest cluster being neither of the
\* two merged, leaves that cluster with the merged cluster as closest, with
\* the distance to the merged cluster as cached distance, and relocated.
C16_NearerMergedAdopted ==
    [][ round_taken =>
          \A item \in Range(queue') \ { merged_cluster' } :
              ( /\ cl[item].closest \notin { cluster1', cluster2' }
                /\ distance_to_merged(item) < cl[item].distance ) =>
                  /\ cl'[item].closest = merged_cluster'
                  /\ cl'[item].distance = distance_to_merged(item)
                  /\ item \in Range(cluster_relocation_requests') ]_vars

\* ------------------------------------------------------------------ C17
\* the least distance from a cluster to another cluster the round leaves in
\* the queue
nearest_distance(item) ==
    SetMin({ cluster_distance(cl'[item].rep, cl'[y].rep) : y \in Range(queue') \ { item } })

C18_ClosestLive ==
    /\ pc # "raised"
    /\ round_ahead =>
         \A x \in Range(queue) : cl[x].closest \in Range(queue) \ { x }

C18_Witness ==
    /\ round_ahead
    /\ rounds >= 2
    /\ \E x \in Range(queue) : cl[x].closest = merged_cluster
    /\ \E x \in Range(queue) : cl[x].closest \notin { merged_cluster, x }
    /\ \A x \in Range(queue) : cl[x].closest \in Range(queue) \ { x }

\* ------------------------------------------------------------------ C19
\* C19: when a round is about to run or process() has returned, the tree
\* holds one node per representative point of each cluster of the queue, owned
\* by that cluster, and nothing else.
C19_TreeExact ==
    pc \in { "loop", "done" } => tree = create_kdtree(queue, cl)

\* ------------------------------------------------------------------ C20
\* the number of distinct member points of a cluster
distinct_points(cluster) ==
    Cardinality({ pointer_data[cluster.points[i]] : i \in DOMAIN cluster.points })

Min(a, b) == IF a <= b THEN a ELSE b

\* C20: a merged cluster built under a valid configuration has exactly
\* min(number_represent_points, d) representatives, d its number of distinct
\* member points, and its first representative is the shrunk image of a member
\* farthest from the merged mean.
C20_SamplingFillsCap ==
    ( pc = "loop" /\ rounds >= 1 /\ ~invalid_configuration ) =>
        LET m == cl[merged_cluster]
            far == SetMax({ euclidean_distance(pointer_data[m.points[i]], m.mean) :
                              i \in DOMAIN m.points })
        IN  /\ Len(m.rep) = Min(number_represent_points, distinct_points(m))
            /\ \E i \in DOMAIN m.points :
                 /\ euclidean_distance(pointer_data[m.points[i]], m.mean) = far
                 /\ m.rep[1] = representative_point(pointer_data[m.points[i]],
                                                    m.mean, compression)

\* ------------------------------------------------------------------ C21
\* the queue a round scans: the queue without the two clusters it merges
remaining_queue == ListRemove(ListRemove(queue, cluster1'), cluster2')

\* C21: a round that leaves at least one cluster beside the merged one gives
\* the merged cluster a closest cluster among the remaining ones, at the least
\* distance between representatives to any of them, caches that distance, and
\* among remaining clusters at that distance takes the earliest in queue order.
C21_MergedNearest ==
    [][ ( round_taken /\ Len(queue) > 2 ) =>
          LET m  == merged_cluster'
              q2 == remaining_queue
              D(i) == cluster_distance(cl'[m].rep, cl'[q2[i]].rep)
          IN  \E i \in DOMAIN q2 :
                /\ cl'[m].closest = q2[i]
                /\ q2[i] \in Range(queue') \ { m }
                /\ cl'[m].distance = D(i)
                /\ \A j \in DOMAIN q2 : D(j) >= D(i)
                /\ \A j \in 1..(i - 1) : D(j) > D(i) ]_vars

C21_Witness ==
    /\ pc = "loop"
    /\ rounds >= 1
    /\ Len(queue) >= 4
    /\ LET m == merged_cluster
       IN  /\ cl[m].closest \in Range(queue) \ { m }
           /\ cl[m].distance = dist(m, cl[m].closest)
           /\ \E y \in Range(queue) \ { m, cl[m].closest } : dist(m, y) = cl[m].distance
           /\ \E y \in Range(queue) \ { m } : dist(m, y) > cl[m].distance

\* ------------------------------------------------------------------ C22
RECURSIVE coordinate_sum(_)
coordinate_sum(points) ==
    IF points = << >> THEN 0
    ELSE pointer_data[Head(points)] + coordinate_sum(Tail(points))

C24_AmountEvaluated ==
    ( elbow_pc = "done" /\ kmin >= 1 ) => ( kmin <= kvalue /\ kvalue <= kmax - 1 )
====
